---- MODULE Spec2Model ----
(***************************************************************************)
(* Model of the changedetection MCP server (src/server_enhanced.py): the   *)
(* token-bucket RateLimiter, the MetricsCollector, the input validators,   *)
(* the ChangeDetectionClient and the call_tool dispatcher, run as asyncio  *)
(* coroutines that are suspended only at their outbound HTTP request.      *)
(*                                                                         *)
(* Conventions.  Time is counted in whole seconds.  A string is a tuple of *)
(* one-character strings.  The bucket's tokens are counted in units of     *)
(* 1/SecondsPerMinute token, so that elapsed * rate is an integer:         *)
(* rate = rate_per_minute / 60 tokens per second is rate_per_minute units  *)
(* per second, and one token is SecondsPerMinute units.  Arithmetic is     *)
(* exact (rational), not IEEE double.  Values rounded by round(x, 2) are   *)
(* kept as integer hundredths.                                             *)
(***************************************************************************)
EXTENDS Integers, Sequences, FiniteSets, TLC

\* ------------------------------------------------------------------------
\* Bounds of the model
\* ------------------------------------------------------------------------
MaxCalls == 2          \* invocations per run of Spec
MaxTime == 1           \* seconds a run of Spec lasts
MaxBurst == 2          \* largest burst capacity configured
LimiterCalls == 3      \* invocations per run of SpecLimiter
LimiterTime == 3       \* seconds a run of SpecLimiter lasts
MetricsCalls == 4      \* invocations per run of SpecMetrics
MetricsTime == 1       \* seconds a run of SpecMetrics lasts
SingleCalls == 1       \* invocations per run of SpecSingle
SingleTime == 1        \* seconds a run of SpecSingle lasts
MaxLen == 3            \* longest string given to sanitize_string
MaxMaxLength == 4      \* largest max_length given to sanitize_string

\* ------------------------------------------------------------------------
\* Program constants
\* ------------------------------------------------------------------------
SecondsPerMinute == 60
MsPerSecond == 1000
DefaultMaxLength == 2048
TagMaxLength == 100
Percent == 100
Hundredths == 100
SERVER_VERSION == "1.0.0"

\* ------------------------------------------------------------------------
\* Strings
\* ------------------------------------------------------------------------
NUL == "NUL"
Digits == {"0", "1", "2", "3", "4", "5", "6", "7", "8", "9"}
HexLetters == {"a", "b", "c", "d", "e", "f", "A", "B", "C", "D", "E", "F"}
Letters ==
    {"a", "b", "c", "d", "e", "f", "g", "h", "i", "j", "k", "l", "m", "n",
     "o", "p", "q", "r", "s", "t", "u", "v", "w", "x", "y", "z",
     "A", "B", "C", "D", "E", "F", "G", "H", "I", "J", "K", "L", "M", "N",
     "O", "P", "Q", "R", "S", "T", "U", "V", "W", "X", "Y", "Z"}
Whitespace == {" ", "\t", "\n", "\r"}

Min(a, b) == IF a <= b THEN a ELSE b

Slice(s, i, j) == IF j < i THEN << >> ELSE SubSeq(s, i, j)

UpperCase ==
    <<"A", "B", "C", "D", "E", "F", "G", "H", "I", "J", "K", "L", "M", "N",
       "O", "P", "Q", "R", "S", "T", "U", "V", "W", "X", "Y", "Z">>
LowerCase ==
    <<"a", "b", "c", "d", "e", "f", "g", "h", "i", "j", "k", "l", "m", "n",
       "o", "p", "q", "r", "s", "t", "u", "v", "w", "x", "y", "z">>

LowerChar(c) ==
    IF \E i \in 1..Len(UpperCase) : UpperCase[i] = c
    THEN LowerCase[CHOOSE i \in 1..Len(UpperCase) : UpperCase[i] = c]
    ELSE c

Lower(s) == [i \in 1..Len(s) |-> LowerChar(s[i])]

\* value[:max_length]
Truncate(s, max_length) == Slice(s, 1, Min(Len(s), max_length))

\* value.replace("\x00", "")
RemoveNul(s) == SelectSeq(s, LAMBDA c : c # NUL)

RECURSIVE LStrip(_)
LStrip(s) ==
    IF s # << >> /\ Head(s) \in Whitespace THEN LStrip(Tail(s)) ELSE s

RECURSIVE RStrip(_)
RStrip(s) ==
    IF s # << >> /\ s[Len(s)] \in Whitespace
    THEN RStrip(Slice(s, 1, Len(s) - 1))
    ELSE s

\* value.strip()
Strip(s) == RStrip(LStrip(s))

\* s.split(sep) for a one-character separator
RECURSIVE Split(_, _)
Split(s, sep) ==
    IF \E i \in 1..Len(s) : s[i] = sep
    THEN LET i == CHOOSE k \in 1..Len(s) :
                     s[k] = sep /\ \A m \in 1..(k - 1) : s[m] # sep
         IN  << Slice(s, 1, i - 1) >> \o Split(Slice(s, i + 1, Len(s)), sep)
    ELSE << s >>

\* The pattern's "$": the end of the string, or just before a final newline.
DollarForms(s) ==
    {s} \cup (IF s # << >> /\ s[Len(s)] = "\n"
              THEN {Slice(s, 1, Len(s) - 1)} ELSE {})

\* ------------------------------------------------------------------------
\* Argument values: a JSON value of the argument bag, or None for a key
\* that is absent (dict.get).
\* ------------------------------------------------------------------------
StrVal(s) == [type |-> "str", value |-> s]
None == [type |-> "NoneType"]
IntVal(n) == [type |-> "int", value |-> n]

\* Python truthiness: `not value`
Truthy(v) ==
    CASE v.type = "str" -> v.value # << >>
      [] v.type = "int" -> v.value # 0
      [] OTHER -> FALSE

DigitChar(d) ==
    CASE d = 0 -> "0" [] d = 1 -> "1" [] d = 2 -> "2" [] d = 3 -> "3"
      [] d = 4 -> "4" [] d = 5 -> "5" [] d = 6 -> "6" [] d = 7 -> "7"
      [] d = 8 -> "8" [] OTHER -> "9"

RECURSIVE NatToStr(_)
NatToStr(n) ==
    IF n < 10 THEN << DigitChar(n) >>
    ELSE NatToStr(n \div 10) \o << DigitChar(n % 10) >>

\* str(value) of a value that is not a str
PyStr(v) ==
    CASE v.type = "int" ->
             IF v.value < 0 THEN << "-" >> \o NatToStr(0 - v.value)
             ELSE NatToStr(v.value)
      [] v.type = "str" -> v.value
      [] OTHER -> << "N", "o", "n", "e" >>

\* ------------------------------------------------------------------------
\* Input validation and sanitization
\* ------------------------------------------------------------------------
sanitize_string(v, max_length) ==
    IF v.type # "str" THEN PyStr(v)
    ELSE Strip(RemoveNul(Truncate(v.value, max_length)))

IsHex(s, n) == Len(s) = n /\ \A i \in 1..n : s[i] \in Digits \cup HexLetters

UuidGroups == << 8, 4, 4, 4, 12 >>

validate_uuid(s) ==
    \E t \in DollarForms(s) :
        LET g == Split(t, "-")
        IN  /\ Len(g) = Len(UuidGroups)
            /\ \A i \in 1..Len(g) : IsHex(g[i], UuidGroups[i])

AlNum == Letters \cup Digits

\* [A-Z0-9](?:[A-Z0-9-]{0,61}[A-Z0-9])?
IsLabel(s) ==
    /\ Len(s) >= 1
    /\ Len(s) <= 63
    /\ s[1] \in AlNum
    /\ s[Len(s)] \in AlNum
    /\ \A i \in 1..Len(s) : s[i] \in AlNum \cup {"-"}

\* (?:label\.)+[A-Z]{2,6}\.?
IsDomain(h) ==
    \E t \in {h} \cup (IF h # << >> /\ h[Len(h)] = "."
                       THEN {Slice(h, 1, Len(h) - 1)} ELSE {}) :
        LET p == Split(t, ".")
            n == Len(p)
        IN  /\ n >= 2
            /\ \A i \in 1..(n - 1) : IsLabel(p[i])
            /\ Len(p[n]) >= 2
            /\ Len(p[n]) <= 6
            /\ \A i \in 1..Len(p[n]) : p[n][i] \in Letters

\* \d{1,3}\.\d{1,3}\.\d{1,3}\.\d{1,3}
IsDottedQuad(h) ==
    LET p == Split(h, ".")
    IN  /\ Len(p) = 4
        /\ \A i \in 1..4 :
               /\ Len(p[i]) >= 1
               /\ Len(p[i]) <= 3
               /\ \A k \in 1..Len(p[i]) : p[i][k] \in Digits

LOCALHOST_STR == <<"l", "o", "c", "a", "l", "h", "o", "s", "t">>
HTTP_STR == <<"h", "t", "t", "p", ":", "/", "/">>
HTTPS_STR == <<"h", "t", "t", "p", "s", ":", "/", "/">>

IsHost(h) ==
    IsDomain(h) \/ Lower(h) = LOCALHOST_STR \/ IsDottedQuad(h)

\* (?::\d+)?
IsPort(s) ==
    \/ s = << >>
    \/ /\ Len(s) >= 2
       /\ s[1] = ":"
       /\ \A i \in 2..Len(s) : s[i] \in Digits

\* (?:/?|[/?]\S+)
IsPath(s) ==
    \/ s = << >>
    \/ s = << "/" >>
    \/ /\ Len(s) >= 2
       /\ s[1] \in {"/", "?"}
       /\ \A i \in 2..Len(s) : s[i] \notin Whitespace

validate_url(s) ==
    \E t \in DollarForms(s) :
        \E i \in {7, 8} :
            /\ i <= Len(t)
            /\ Lower(Slice(t, 1, i)) \in {HTTP_STR, HTTPS_STR}
            /\ \E j \in i..Len(t) :
                   /\ IsHost(Slice(t, i + 1, j))
                   /\ \E k \in j..Len(t) :
                          /\ IsPort(Slice(t, j + 1, k))
                          /\ IsPath(Slice(t, k + 1, Len(t)))

\* ------------------------------------------------------------------------
\* round(x, 2): the number of hundredths nearest to num/den, ties to even
\* ------------------------------------------------------------------------
Round2(num, den) ==
    LET n == num * Hundredths
        q == n \div den
        r == n % den
    IN  IF 2 * r < den THEN q
        ELSE IF 2 * r > den THEN q + 1
        ELSE IF q % 2 = 0 THEN q ELSE q + 1

\* ------------------------------------------------------------------------
\* RateLimiter (token bucket)
\* ------------------------------------------------------------------------
NoCounts == [c \in {} |-> 0]

RECURSIVE SumValues(_)
SumValues(f) ==
    IF DOMAIN f = {} THEN 0
    ELSE LET k == CHOOSE x \in DOMAIN f : TRUE
         IN  f[k] + SumValues([x \in DOMAIN f \ {k} |-> f[x]])

\* defaultdict(int)[key] += 1
Increment(counts, key) ==
    [c \in DOMAIN counts \cup {key} |->
        IF c = key
        THEN (IF key \in DOMAIN counts THEN counts[key] ELSE 0) + 1
        ELSE counts[c]]

RateLimiterInit(rate_per_minute, burst, t) ==
    [rate |-> rate_per_minute,
     burst |-> burst,
     tokens |-> burst * SecondsPerMinute,
     last_update |-> t,
     request_counts |-> NoCounts]

\* Refill without the cap at the burst capacity
Refill_Uncapped(rl, t) == rl.tokens + (t - rl.last_update) * rl.rate

\* tokens after "Add tokens based on elapsed time"
Refill(rl, t) ==
    Min(rl.burst * SecondsPerMinute, rl.tokens + (t - rl.last_update) * rl.rate)

\* allow_request that admits without taking the token
allow_request_NoConsume(rl, client_id, t) ==
    LET tokens == Refill(rl, t)
        refilled == [rl EXCEPT !.tokens = tokens, !.last_update = t]
    IN  IF tokens >= SecondsPerMinute
        THEN [outcome |-> "allowed",
              limiter |-> [refilled EXCEPT
                              !.request_counts = Increment(@, client_id)],
              retry_after |-> None]
        ELSE IF rl.rate = 0
        THEN [outcome |-> "raised", limiter |-> refilled, retry_after |-> None]
        ELSE [outcome |-> "denied",
              limiter |-> refilled,
              retry_after |-> [type |-> "float",
                               num |-> SecondsPerMinute - tokens,
                               den |-> rl.rate]]

\* allow_request whose retry_after is the time to refill a whole token
allow_request_FullToken(rl, client_id, t) ==
    LET tokens == Refill(rl, t)
        refilled == [rl EXCEPT !.tokens = tokens, !.last_update = t]
    IN  IF tokens >= SecondsPerMinute
        THEN [outcome |-> "allowed",
              limiter |-> [refilled EXCEPT
                              !.tokens = tokens - SecondsPerMinute,
                              !.request_counts = Increment(@, client_id)],
              retry_after |-> None]
        ELSE IF rl.rate = 0
        THEN [outcome |-> "raised", limiter |-> refilled, retry_after |-> None]
        ELSE [outcome |-> "denied",
              limiter |-> refilled,
              retry_after |-> [type |-> "float",
                               num |-> SecondsPerMinute - 2 * tokens,
                               den |-> rl.rate]]

\* allow_request counting the denied calls too
allow_request_CountDenied(rl, client_id, t) ==
    LET tokens == Refill(rl, t)
        refilled == [rl EXCEPT !.tokens = tokens, !.last_update = t,
                               !.request_counts = Increment(@, client_id)]
    IN  IF tokens >= SecondsPerMinute
        THEN [outcome |-> "allowed",
              limiter |-> [refilled EXCEPT
                              !.tokens = tokens - SecondsPerMinute],
              retry_after |-> None]
        ELSE IF rl.rate = 0
        THEN [outcome |-> "raised",
              limiter |-> refilled,
              retry_after |-> None]
        ELSE [outcome |-> "denied",
              limiter |-> refilled,
              retry_after |-> [type |-> "float",
                               num |-> SecondsPerMinute - tokens,
                               den |-> rl.rate]]

\* allow_request at time t.  outcome is "allowed", "denied" (with
\* retry_after = num/den seconds) or "raised" (ZeroDivisionError from the
\* division by self.rate, after tokens and last_update were written).
allow_request(rl, client_id, t) ==
    LET tokens == Refill(rl, t)
        refilled == [rl EXCEPT !.tokens = tokens, !.last_update = t]
    IN  IF tokens >= SecondsPerMinute
        THEN [outcome |-> "allowed",
              limiter |-> [refilled EXCEPT
                              !.tokens = tokens - SecondsPerMinute,
                              !.request_counts = Increment(@, client_id)],
              retry_after |-> None]
        ELSE IF rl.rate = 0
        THEN [outcome |-> "raised",
              limiter |-> refilled,
              retry_after |-> None]
        ELSE [outcome |-> "denied",
              limiter |-> refilled,
              retry_after |-> [type |-> "float",
                               num |-> SecondsPerMinute - tokens,
                               den |-> rl.rate]]

get_stats(rl, enabled, rate_per_minute) ==
    [enabled |-> enabled,
     rate_per_minute |-> rate_per_minute,
     burst |-> rl.burst,
     current_tokens_x100 |-> Round2(rl.tokens, SecondsPerMinute),
     total_requests |-> SumValues(rl.request_counts)]

\* ------------------------------------------------------------------------
\* MetricsCollector
\* ------------------------------------------------------------------------
NoToolMetrics == [count |-> 0, errors |-> 0, duration_ms |-> 0]

NoTools == [n \in {} |-> NoToolMetrics]

MetricsInit(t) ==
    [requests_total |-> 0,
     requests_success |-> 0,
     requests_failed |-> 0,
     requests_rate_limited |-> 0,
     total_duration_ms |-> 0,
     by_tool |-> NoTools,
     start_time |-> t]

\* defaultdict lookup of by_tool[tool_name]
ToolMetrics(by_tool, tool_name) ==
    IF tool_name \in DOMAIN by_tool THEN by_tool[tool_name] ELSE NoToolMetrics

\* record_request that starts the tool's entry afresh on every call
record_request_Overwrite(m, tool_name, success, duration_ms, rate_limited) ==
    LET counted == [m EXCEPT !.requests_total = @ + 1]
        new == [count |-> 1,
                errors |-> IF success THEN 0 ELSE 1,
                duration_ms |-> duration_ms]
    IN  IF rate_limited
        THEN [counted EXCEPT !.requests_rate_limited = @ + 1]
        ELSE [counted EXCEPT
                 !.requests_success = IF success THEN @ + 1 ELSE @,
                 !.requests_failed = IF success THEN @ ELSE @ + 1,
                 !.total_duration_ms = @ + duration_ms,
                 !.by_tool = [n \in DOMAIN m.by_tool \cup {tool_name} |->
                                 IF n = tool_name THEN new ELSE m.by_tool[n]]]

\* record_request with the per-tool error count never incremented
record_request_NoErrors(m, tool_name, success, duration_ms, rate_limited) ==
    LET counted == [m EXCEPT !.requests_total = @ + 1]
        old == ToolMetrics(m.by_tool, tool_name)
        new == [count |-> old.count + 1,
                errors |-> old.errors,
                duration_ms |-> old.duration_ms + duration_ms]
    IN  IF rate_limited
        THEN [counted EXCEPT !.requests_rate_limited = @ + 1]
        ELSE [counted EXCEPT
                 !.requests_success = IF success THEN @ + 1 ELSE @,
                 !.requests_failed = IF success THEN @ ELSE @ + 1,
                 !.total_duration_ms = @ + duration_ms,
                 !.by_tool = [n \in DOMAIN m.by_tool \cup {tool_name} |->
                                 IF n = tool_name THEN new ELSE m.by_tool[n]]]

\* record_request that keeps the last duration instead of the sum
record_request_LastDuration(m, tool_name, success, duration_ms, rate_limited) ==
    LET counted == [m EXCEPT !.requests_total = @ + 1]
        old == ToolMetrics(m.by_tool, tool_name)
        new == [count |-> old.count + 1,
                errors |-> IF success THEN old.errors ELSE old.errors + 1,
                duration_ms |-> duration_ms]
    IN  IF rate_limited
        THEN [counted EXCEPT !.requests_rate_limited = @ + 1]
        ELSE [counted EXCEPT
                 !.requests_success = IF success THEN @ + 1 ELSE @,
                 !.requests_failed = IF success THEN @ ELSE @ + 1,
                 !.total_duration_ms = duration_ms,
                 !.by_tool = [n \in DOMAIN m.by_tool \cup {tool_name} |->
                                 IF n = tool_name THEN new ELSE m.by_tool[n]]]

\* record_request without the early return for a rate-limited request
record_request_NoEarlyReturn(m, tool_name, success, duration_ms, rate_limited) ==
    LET counted == [m EXCEPT !.requests_total = @ + 1,
                             !.requests_rate_limited =
                                 IF rate_limited THEN @ + 1 ELSE @]
        old == ToolMetrics(m.by_tool, tool_name)
        new == [count |-> old.count + 1,
                errors |-> IF success THEN old.errors ELSE old.errors + 1,
                duration_ms |-> old.duration_ms + duration_ms]
    IN  [counted EXCEPT
            !.requests_success = IF success THEN @ + 1 ELSE @,
            !.requests_failed = IF success THEN @ ELSE @ + 1,
            !.total_duration_ms = @ + duration_ms,
            !.by_tool = [n \in DOMAIN m.by_tool \cup {tool_name} |->
                            IF n = tool_name THEN new ELSE m.by_tool[n]]]

record_request(m, tool_name, success, duration_ms, rate_limited) ==
    LET counted == [m EXCEPT !.requests_total = @ + 1]
        old == ToolMetrics(m.by_tool, tool_name)
        new == [count |-> old.count + 1,
                errors |-> IF success THEN old.errors ELSE old.errors + 1,
                duration_ms |-> old.duration_ms + duration_ms]
    IN  IF rate_limited
        THEN [counted EXCEPT !.requests_rate_limited = @ + 1]
        ELSE [counted EXCEPT
                 !.requests_success = IF success THEN @ + 1 ELSE @,
                 !.requests_failed = IF success THEN @ ELSE @ + 1,
                 !.total_duration_ms = @ + duration_ms,
                 !.by_tool = [n \in DOMAIN m.by_tool \cup {tool_name} |->
                                 IF n = tool_name THEN new ELSE m.by_tool[n]]]

get_metrics(m, t) ==
    [uptime_seconds_x100 |-> (t - m.start_time) * Hundredths,
     requests |->
         [total |-> m.requests_total,
          success |-> m.requests_success,
          failed |-> m.requests_failed,
          rate_limited |-> m.requests_rate_limited,
          success_rate_x100 |->
              IF m.requests_total > 0
              THEN Round2(m.requests_success * Percent, m.requests_total)
              ELSE 0],
     performance |->
         [avg_duration_ms_x100 |->
              IF m.requests_success > 0
              THEN Round2(m.total_duration_ms, m.requests_success)
              ELSE 0,
          total_duration_ms_x100 |-> m.total_duration_ms * Hundredths],
     by_tool |-> m.by_tool]

\* ------------------------------------------------------------------------
\* ChangeDetectionClient: the part of each operation that runs before its
\* outbound request, and the result of _request for each thing the
\* upstream can do.
\* ------------------------------------------------------------------------
Exc(type, text, detail) == [type |-> type, text |-> text, detail |-> detail]

NoDetail == << >>

Raise(e) == [kind |-> "raise", exception |-> e]

Await(method, endpoint, id, suffix, data) ==
    [kind |-> "await",
     request |-> [method |-> method, endpoint |-> endpoint, id |-> id,
                  suffix |-> suffix, data |-> data]]

NoData == [d \in {} |-> << >>]

list_watches == Await("GET", "/api/v1/watch", << >>, "", NoData)

WatchOperation(watch_id, method, suffix) ==
    LET id == sanitize_string(watch_id, DefaultMaxLength)
    IN  IF ~validate_uuid(id)
        THEN Raise(Exc("ValueError", "Invalid watch ID format: ", id))
        ELSE Await(method, "/api/v1/watch/", id, suffix, NoData)

get_watch(watch_id) == WatchOperation(watch_id, "GET", "")

delete_watch(watch_id) == WatchOperation(watch_id, "DELETE", "")

trigger_check(watch_id) == WatchOperation(watch_id, "GET", "/trigger")

get_history(watch_id) == WatchOperation(watch_id, "GET", "/history")

create_watch(url, tag) ==
    LET u == sanitize_string(url, DefaultMaxLength)
        data == IF Truthy(tag)
                THEN [k \in {"url", "tag"} |->
                         IF k = "url" THEN u
                         ELSE sanitize_string(tag, TagMaxLength)]
                ELSE [k \in {"url"} |-> u]
    IN  IF ~validate_url(u)
        THEN Raise(Exc("ValueError", "Invalid URL format: ", u))
        ELSE Await("POST", "/api/v1/watch", << >>, "", data)

system_info == Await("GET", "/api/v1/systeminfo", << >>, "", NoData)

\* LOG_LEVEL values: the default, under which the logger is enabled for
\* ERROR as it is under DEBUG, WARNING and ERROR, and the one level under
\* which it is not.
LogLevels == {"INFO", "CRITICAL"}

\* self.logger.isEnabledFor(logging.ERROR)
ErrorEnabled(level) == level # "CRITICAL"

\* What logging's makeRecord raises for extra = {..., "exc_info": True}
KeyErrorExcInfo ==
    Exc("KeyError", "Attempt to overwrite 'exc_info' in LogRecord", NoDetail)

\* StructuredLogger.error(message, **kwargs): every keyword goes into
\* extra, exc_info included, and a logger enabled for ERROR refuses an
\* extra that names an attribute of the record.
LoggerErrorRaises(level, exc_info) == exc_info /\ ErrorEnabled(level)

\* What the upstream does with one request.
HttpOutcomes ==
    {[kind |-> "response", status |-> 200, text |-> "json"],
     [kind |-> "response", status |-> 200, text |-> "empty"],
     [kind |-> "response", status |-> 200, text |-> "not json"],
     [kind |-> "response", status |-> 401, text |-> "json"],
     [kind |-> "response", status |-> 500, text |-> "json"],
     [kind |-> "timeout"],
     [kind |-> "connect_error"],
     [kind |-> "transport_error"]}

Return(result) == [kind |-> "return", result |-> result]

\* _request after its await, before its except clauses
Response(o) ==
    CASE o.kind = "timeout" ->
             Raise(Exc("TimeoutException", "timed out", NoDetail))
      [] o.kind = "connect_error" ->
             Raise(Exc("ConnectError", "connection refused", NoDetail))
      [] o.kind = "transport_error" ->
             Raise(Exc("ReadError", "read failed", NoDetail))
      [] o.status < 200 \/ o.status > 299 ->
             Raise(Exc("HTTPStatusError", "HTTP ",
                       << ToString(o.status), o.text >>))
      [] o.text = "empty" -> Return([json |-> "{}"])
      [] o.text = "json" -> Return([json |-> "body"])
      [] OTHER ->
             Raise(Exc("JSONDecodeError", "Expecting value", NoDetail))

\* a line of _request: f"{event}: {method} {endpoint}", request_id=...
RequestLine(event, status) ==
    [level |-> "ERROR", event |-> event, tool_name |-> "",
     detail |-> [text |-> status, detail |-> NoDetail]]

\* the logger.error call of the except clause of _request that catches e
RequestErrorLine(e) ==
    CASE e.type = "TimeoutException" -> RequestLine("Request timeout", "")
      [] e.type = "HTTPStatusError" -> RequestLine("HTTP error", e.detail[1])
      [] e.type = "ConnectError" -> RequestLine("Connection error", "")
      [] OTHER -> RequestLine("Unexpected error", "")

\* whether that call passes exc_info=True
RequestErrorExcInfo(e) == e.type # "HTTPStatusError"

\* what the except clause of _request that catches e raises after logging
Reraised(e) ==
    CASE e.type = "TimeoutException" ->
             Exc("Exception", "Request timeout after 30.0s", NoDetail)
      [] e.type = "HTTPStatusError" -> Exc("Exception", e.text, e.detail)
      [] e.type = "ConnectError" ->
             Exc("Exception", "Cannot connect to ", << "BASE_URL" >>)
      [] OTHER -> e

\* _request after its await: the value returned or the exception raised
RequestResult(o, level) ==
    LET r == Response(o)
    IN  IF r.kind = "return" THEN r
        ELSE IF LoggerErrorRaises(level, RequestErrorExcInfo(r.exception))
             THEN Raise(KeyErrorExcInfo)
             ELSE Raise(Reraised(r.exception))

\* the logger.error calls of _request that returned
RequestLog(o, level) ==
    LET r == Response(o)
    IN  IF r.kind = "return" THEN << >>
        ELSE IF LoggerErrorRaises(level, RequestErrorExcInfo(r.exception))
             THEN << >>
             ELSE << RequestErrorLine(r.exception) >>

\* isinstance(e, ValueError)
IsValueError(e) == e.type \in {"ValueError", "JSONDecodeError"}

\* ------------------------------------------------------------------------
\* Tool catalog and the argument bag
\* ------------------------------------------------------------------------
WatchIdTools == {"get_watch", "delete_watch", "trigger_check", "get_history"}

ToolNames ==
    {"list_watches", "create_watch", "system_info", "get_metrics"}
        \cup WatchIdTools

\* arguments.get(key)
Get(arguments, key) ==
    IF key \in DOMAIN arguments THEN arguments[key] ELSE None

NoArguments == [k \in {} |-> None]

Arg(key, v) == [k \in {key} |-> v]

ValidUuid ==
    <<"5", "5", "0", "e", "8", "4", "0", "0", "-", "e", "2", "9", "b", "-",
      "4", "1", "d", "4", "-", "a", "7", "1", "6", "-",
      "4", "4", "6", "6", "5", "5", "4", "4", "0", "0", "0", "0">>

PaddedUuid == << " " >> \o ValidUuid \o << "\n" >>

NotAUuid == <<"n", "o", "t", "-", "a", "-", "u", "u", "i", "d">>

ValidUrl == <<"h", "t", "t", "p", ":", "/", "/", "l", "o", "c", "a", "l", "h", "o", "s", "t", ":", "5", "0", "0", "0">>

NotAUrl == <<"f", "t", "p", ":", "/", "/", "a", ".", "i", "o">>

WatchIdArguments ==
    {NoArguments,
     Arg("watch_id", StrVal(<< >>)),
     Arg("watch_id", StrVal(NotAUuid)),
     Arg("watch_id", StrVal(ValidUuid)),
     Arg("watch_id", StrVal(PaddedUuid))}

UrlArguments ==
    {NoArguments,
     Arg("url", StrVal(<< >>)),
     Arg("url", StrVal(NotAUrl)),
     Arg("url", StrVal(ValidUrl)),
     [k \in {"url", "tag"} |->
         IF k = "url" THEN StrVal(ValidUrl) ELSE StrVal(<< " ", "t" >>)]}

UnknownTool == "no_such_tool"

\* The invocations the protocol layer delivers to call_tool
Requests ==
    {[name |-> n, arguments |-> NoArguments] :
        n \in {"list_watches", "system_info", "get_metrics", UnknownTool}}
    \cup {[name |-> n, arguments |-> a] :
            n \in WatchIdTools, a \in WatchIdArguments}
    \cup {[name |-> "create_watch", arguments |-> a] : a \in UrlArguments}

\* ------------------------------------------------------------------------
\* State
\* ------------------------------------------------------------------------
VARIABLES
    RATE_LIMIT_ENABLED,     \* configuration, fixed at start-up
    RATE_LIMIT_PER_MINUTE,
    RATE_LIMIT_BURST,
    ENABLE_METRICS,
    DEBUG_MODE,
    LOG_LEVEL,
    env,                    \* what the clients send, what the upstream does
    now,                    \* time.time()
    rate_limiter,           \* the process-wide RateLimiter
    metrics,                \* the process-wide MetricsCollector
    calls,                  \* the call_tool invocations, in order of arrival
    sanitize_call,          \* a call of sanitize_string on its own
    health                  \* the health probe process (src/healthcheck.py)

config ==
    << RATE_LIMIT_ENABLED, RATE_LIMIT_PER_MINUTE, RATE_LIMIT_BURST,
       ENABLE_METRICS, DEBUG_MODE, LOG_LEVEL >>

vars ==
    << config, env, now, rate_limiter, metrics, calls, sanitize_call, health >>

CallIds == DOMAIN calls

NoResponse == [pending |-> TRUE]

NoGate == [outcome |-> "none", retry_after |-> None]

IdleCall ==
    [pc |-> "idle", name |-> "", arguments |-> NoArguments, start_time |-> 0,
     success |-> FALSE, gate |-> NoGate, http_requests |-> 0,
     samples |-> << >>, log |-> << >>, response |-> NoResponse]

NoSanitizeCall == [pc |-> "none"]

NoHealth == [pc |-> "none"]

\* rate_per_minute values: no refill, and a third of a token, one token
\* and two tokens per second
Rates == {0, 20, 60, 120}

RequestsOf(tools) == {r \in Requests : r.name \in tools}

\* The module-level objects as constructed at import time, for a run of n
\* invocations lasting horizon seconds.
Start(n, horizon, requests, upstream) ==
    /\ env = [requests |-> requests, upstream |-> upstream,
              horizon |-> horizon]
    /\ now = 0
    /\ rate_limiter = RateLimiterInit(RATE_LIMIT_PER_MINUTE, RATE_LIMIT_BURST, 0)
    /\ metrics = MetricsInit(0)
    /\ calls = [i \in 1..n |-> IdleCall]
    /\ sanitize_call = NoSanitizeCall
    /\ health = NoHealth

\* Any setting of the flags, with a bucket that starts empty or holds one
\* token, refilled or not.
AnyConfiguration ==
    /\ RATE_LIMIT_ENABLED \in BOOLEAN
    /\ \E br \in {<< 0, 60 >>, << 1, 60 >>, << 1, 0 >>} :
           /\ RATE_LIMIT_BURST = br[1]
           /\ RATE_LIMIT_PER_MINUTE = br[2]
    /\ ENABLE_METRICS \in BOOLEAN
    /\ DEBUG_MODE \in BOOLEAN
    /\ LOG_LEVEL \in LogLevels

\* Any configuration; the clients use one tool and get_metrics.
Init ==
    /\ AnyConfiguration
    /\ \E t \in ToolNames \cup {UnknownTool} :
           Start(MaxCalls, MaxTime, RequestsOf({t, "get_metrics"}),
                 HttpOutcomes)

\* The same, for runs of SingleCalls invocations.
InitSingle ==
    /\ AnyConfiguration
    /\ \E t \in ToolNames \cup {UnknownTool} :
           Start(SingleCalls, SingleTime, RequestsOf({t, "get_metrics"}),
                 HttpOutcomes)

\* The rate limiter under every burst and rate, with an upstream that
\* always answers.
InitLimiter ==
    /\ RATE_LIMIT_ENABLED = TRUE
    /\ RATE_LIMIT_PER_MINUTE \in Rates
    /\ RATE_LIMIT_BURST \in 0..MaxBurst
    /\ ENABLE_METRICS = TRUE
    /\ DEBUG_MODE = FALSE
    /\ LOG_LEVEL = "INFO"
    /\ Start(LimiterCalls, LimiterTime,
             RequestsOf({"system_info", "get_metrics"}),
             {o \in HttpOutcomes : o.kind = "response" /\ o.status = 200
                                     /\ o.text = "json"})

\* The metrics of list_watches, with an upstream that answers or times out.
InitMetrics ==
    /\ RATE_LIMIT_ENABLED \in BOOLEAN
    /\ RATE_LIMIT_PER_MINUTE = 60
    /\ RATE_LIMIT_BURST = MaxBurst
    /\ ENABLE_METRICS = TRUE
    /\ DEBUG_MODE = FALSE
    /\ LOG_LEVEL = "INFO"
    /\ Start(MetricsCalls, MetricsTime,
             RequestsOf({"list_watches", "get_metrics"}),
             {o \in HttpOutcomes :
                 \/ o.kind = "timeout"
                 \/ o.kind = "response" /\ o.status = 200 /\ o.text = "json"})

\* The strings of at most n characters of an alphabet
RECURSIVE StringsUpTo(_, _)
StringsUpTo(alphabet, n) ==
    IF n = 0 THEN {<< >>}
    ELSE LET shorter == StringsUpTo(alphabet, n - 1)
         IN  shorter \cup {<< c >> \o s : c \in alphabet, s \in shorter}

\* Values given to sanitize_string: strings of blanks, NULs and a letter,
\* and values that are not strings.
SanitizeStrings == {StrVal(s) : s \in StringsUpTo({" ", NUL, "a"}, MaxLen)}

SanitizeIntegers == {IntVal(0), IntVal(7), IntVal(12345), IntVal(0 - 12)}

SanitizeCalled(v, max_length) ==
    sanitize_call = [pc |-> "called", value |-> v, max_length |-> max_length]

\* sanitize_string on its own, called once with any value and max_length
InitSanitize ==
    /\ RATE_LIMIT_ENABLED = TRUE
    /\ RATE_LIMIT_PER_MINUTE = 60
    /\ RATE_LIMIT_BURST = MaxBurst
    /\ ENABLE_METRICS = TRUE
    /\ DEBUG_MODE = FALSE
    /\ LOG_LEVEL = "INFO"
    /\ env = [requests |-> {}, upstream |-> {}, horizon |-> 0]
    /\ now = 0
    /\ rate_limiter = RateLimiterInit(RATE_LIMIT_PER_MINUTE, RATE_LIMIT_BURST, 0)
    /\ metrics = MetricsInit(0)
    /\ calls = << >>
    /\ health = NoHealth
    /\ \E n \in 0..MaxMaxLength :
           \/ \E v \in SanitizeStrings : SanitizeCalled(v, n)
           \/ \E v \in SanitizeIntegers : SanitizeCalled(v, n)
           \/ SanitizeCalled(None, n)

\* ------------------------------------------------------------------------
\* call_tool
\* ------------------------------------------------------------------------
\* the rate check without the exemption of get_metrics
RateCheck_GateAll(name) ==
    IF RATE_LIMIT_ENABLED
    THEN allow_request(rate_limiter, "default", now)
    ELSE [outcome |-> "skipped", limiter |-> rate_limiter,
          retry_after |-> None]

\* "Check rate limiting"
RateCheck(name) ==
    IF RATE_LIMIT_ENABLED /\ name # "get_metrics"
    THEN allow_request(rate_limiter, "default", now)
    ELSE [outcome |-> "skipped", limiter |-> rate_limiter,
          retry_after |-> None]

Required(key) == Raise(Exc("ValueError", key, << " is required" >>))

\* "Route to appropriate handler", up to the handler's await
Route(name, arguments) ==
    CASE name = "list_watches" -> list_watches
      [] name = "get_watch" ->
             IF ~Truthy(Get(arguments, "watch_id")) THEN Required("watch_id")
             ELSE get_watch(Get(arguments, "watch_id"))
      [] name = "create_watch" ->
             IF ~Truthy(Get(arguments, "url")) THEN Required("url")
             ELSE create_watch(Get(arguments, "url"), Get(arguments, "tag"))
      [] name = "delete_watch" ->
             IF ~Truthy(Get(arguments, "watch_id")) THEN Required("watch_id")
             ELSE delete_watch(Get(arguments, "watch_id"))
      [] name = "trigger_check" ->
             IF ~Truthy(Get(arguments, "watch_id")) THEN Required("watch_id")
             ELSE trigger_check(Get(arguments, "watch_id"))
      [] name = "get_history" ->
             IF ~Truthy(Get(arguments, "watch_id")) THEN Required("watch_id")
             ELSE get_history(Get(arguments, "watch_id"))
      [] name = "system_info" -> system_info
      [] name = "get_metrics" ->
             Return([server_metrics |-> get_metrics(metrics, now),
                     rate_limiter |-> get_stats(rate_limiter,
                                                RATE_LIMIT_ENABLED,
                                                RATE_LIMIT_PER_MINUTE),
                     version |-> SERVER_VERSION])
      [] OTHER -> Raise(Exc("ValueError", "Unknown tool: ", << name >>))

RateLimitEnvelope(retry_after) ==
    [error |-> "rate_limit_exceeded",
     message |-> [text |-> "Rate limit exceeded. Retry after ",
                  detail |-> retry_after],
     retry_after |-> retry_after]

SuccessEnvelope(result) == [success |-> TRUE, data |-> result]

GenericMessage ==
    [text |-> "An error occurred processing your request", detail |-> NoDetail]

\* str(e)
ExcStr(e) == [text |-> e.text, detail |-> e.detail]

\* the except clauses with the generic one first
ErrorEnvelope_GenericFirst(e) ==
    [success |-> FALSE, error |-> "execution_error",
     message |-> IF DEBUG_MODE THEN ExcStr(e) ELSE GenericMessage]

\* the except clauses of call_tool
ErrorEnvelope(e) ==
    IF IsValueError(e)
    THEN [success |-> FALSE, error |-> "validation_error",
          message |-> ExcStr(e)]
    ELSE [success |-> FALSE, error |-> "execution_error",
          message |-> IF DEBUG_MODE THEN ExcStr(e) ELSE GenericMessage]

ErrorLog(name, e) ==
    IF IsValueError(e)
    THEN [level |-> "WARNING", event |-> "Validation error in",
          tool_name |-> name, detail |-> ExcStr(e)]
    ELSE [level |-> "ERROR", event |-> "Error executing",
          tool_name |-> name, detail |-> ExcStr(e)]

\* An exception that leaves call_tool instead of an envelope
Escaped(e) == [raised |-> [type |-> e.type, message |-> ExcStr(e)]]

\* The except clauses of call_tool for exception e: the lines logged and
\* what the caller gets.  The clause for Exception logs with exc_info=True
\* before it builds its envelope.
Handled(name, e) ==
    IF ~IsValueError(e) /\ LoggerErrorRaises(LOG_LEVEL, TRUE)
    THEN [log |-> << >>, response |-> Escaped(KeyErrorExcInfo)]
    ELSE [log |-> << ErrorLog(name, e) >>, response |-> ErrorEnvelope(e)]

Sample(tool_name, success, duration_ms, rate_limited) ==
    [tool_name |-> tool_name, success |-> success,
     duration_ms |-> duration_ms, rate_limited |-> rate_limited]

Record(m, s) ==
    record_request(m, s.tool_name, s.success, s.duration_ms, s.rate_limited)

RECURSIVE RecordAll(_, _)
RecordAll(m, samples) ==
    IF samples = << >> THEN m
    ELSE RecordAll(Record(m, Head(samples)), Tail(samples))

\* the finally clause recording successes only
FinallySamples_OnSuccess(c, success) ==
    IF ENABLE_METRICS /\ success
    THEN << Sample(c.name, success, (now - c.start_time) * MsPerSecond, FALSE) >>
    ELSE << >>

\* the samples the finally clause records
FinallySamples(c, success) ==
    IF ENABLE_METRICS
    THEN << Sample(c.name, success, (now - c.start_time) * MsPerSecond, FALSE) >>
    ELSE << >>

CompletedLog(c, success) ==
    [level |-> "INFO", event |-> "Tool call completed",
     tool_name |-> c.name,
     detail |-> [duration_ms_x100 |->
                     (now - c.start_time) * MsPerSecond * Hundredths,
                 success |-> success]]

\* An invocation leaves call_tool: the samples recorded on the way, the
\* lines logged, and the envelope returned, followed by the finally clause.
\* Its locals are gone once it has returned.
Finish(c, success, samples, lines, response) ==
    [c EXCEPT !.pc = "done",
              !.start_time = 0,
              !.success = success,
              !.samples = @ \o samples \o FinallySamples(c, success),
              !.log = @ \o lines \o << CompletedLog(c, success) >>,
              !.response = response]

ZeroDivisionError == Exc("ZeroDivisionError", "float division by zero", NoDetail)

\* call_tool from its entry to its first suspension or to its return
Enter(c, gate, route) ==
    CASE gate.outcome = "denied" ->
             Finish(c, FALSE, << Sample(c.name, FALSE, 0, TRUE) >>, << >>,
                    RateLimitEnvelope(gate.retry_after))
      [] gate.outcome = "raised" ->
             Finish(c, FALSE, << >>, Handled(c.name, ZeroDivisionError).log,
                    Handled(c.name, ZeroDivisionError).response)
      [] route.kind = "raise" ->
             Finish(c, FALSE, << >>, Handled(c.name, route.exception).log,
                    Handled(c.name, route.exception).response)
      [] route.kind = "return" ->
             Finish(c, TRUE, << >>, << >>, SuccessEnvelope(route.result))
      [] OTHER ->
             [c EXCEPT !.pc = "awaiting", !.http_requests = @ + 1]

\* call_tool repeating a failed request once
Resume_Retry(c, result, request_log) ==
    IF result.kind = "raise" /\ c.http_requests < 2
    THEN [c EXCEPT !.http_requests = @ + 1, !.log = @ \o request_log]
    ELSE IF result.kind = "raise"
    THEN Finish(c, FALSE, << >>,
                request_log \o Handled(c.name, result.exception).log,
                Handled(c.name, result.exception).response)
    ELSE Finish(c, TRUE, << >>, request_log, SuccessEnvelope(result.result))

\* call_tool setting success before it awaits the client
Resume_SuccessFirst(c, result, request_log) ==
    IF result.kind = "raise"
    THEN Finish(c, TRUE, << >>,
                request_log \o Handled(c.name, result.exception).log,
                Handled(c.name, result.exception).response)
    ELSE Finish(c, TRUE, << >>, request_log, SuccessEnvelope(result.result))

\* call_tool from the completion of its outbound request to its return
Resume(c, result, request_log) ==
    IF result.kind = "raise"
    THEN Finish(c, FALSE, << >>,
                request_log \o Handled(c.name, result.exception).log,
                Handled(c.name, result.exception).response)
    ELSE Finish(c, TRUE, << >>, request_log, SuccessEnvelope(result.result))

NewSamples(old, new) == SubSeq(new.samples, Len(old.samples) + 1, Len(new.samples))

\* ------------------------------------------------------------------------
\* Actions
\* ------------------------------------------------------------------------
CallTool(i, req) ==
    /\ calls[i].pc = "idle"
    /\ \A j \in CallIds : j < i => calls[j].pc # "idle"
    /\ LET gate == RateCheck(req.name)
           c == [calls[i] EXCEPT !.name = req.name,
                                 !.arguments = req.arguments,
                                 !.start_time = now,
                                 !.gate = [outcome |-> gate.outcome,
                                           retry_after |-> gate.retry_after]]
           after == Enter(c, gate, Route(req.name, req.arguments))
       IN  /\ rate_limiter' = gate.limiter
           /\ calls' = [calls EXCEPT ![i] = after]
           /\ metrics' = RecordAll(metrics, NewSamples(c, after))
    /\ UNCHANGED << config, env, now, sanitize_call, health >>

HttpResponse(i, o) ==
    /\ calls[i].pc = "awaiting"
    /\ LET after == Resume(calls[i], RequestResult(o, LOG_LEVEL),
                            RequestLog(o, LOG_LEVEL))
       IN  /\ calls' = [calls EXCEPT ![i] = after]
           /\ metrics' = RecordAll(metrics, NewSamples(calls[i], after))
    /\ UNCHANGED << config, env, now, rate_limiter, sanitize_call, health >>

Tick ==
    /\ now < env.horizon
    /\ now' = now + 1
    /\ UNCHANGED << config, env, rate_limiter, metrics, calls, sanitize_call,
                    health >>

\* sanitize_string(value, max_length) returns
Sanitize ==
    /\ sanitize_call.pc = "called"
    /\ sanitize_call' =
           [pc |-> "returned", value |-> sanitize_call.value,
            max_length |-> sanitize_call.max_length,
            result |-> sanitize_string(sanitize_call.value,
                                       sanitize_call.max_length)]
    /\ UNCHANGED << config, env, now, rate_limiter, metrics, calls, health >>

Next ==
    \/ \E i \in CallIds, req \in env.requests : CallTool(i, req)
    \/ \E i \in CallIds, o \in env.upstream : HttpResponse(i, o)
    \/ Tick

Spec == Init /\ [][Next]_vars

SpecLimiter == InitLimiter /\ [][Next]_vars

SpecMetrics == InitMetrics /\ [][Next]_vars

SpecSingle == InitSingle /\ [][Next]_vars

SpecSanitize == InitSanitize /\ [][Sanitize]_vars

\* ------------------------------------------------------------------------
\* The health probe (src/healthcheck.py): a process of its own that runs
\* four checks under asyncio.gather, prints a report and exits.
\* ------------------------------------------------------------------------
RequiredVars == << "CHANGEDETECTION_URL", "CHANGEDETECTION_API_KEY" >>

OptionalVars == << "LOG_LEVEL", "RATE_LIMIT_ENABLED", "ENABLE_METRICS" >>

Range(seq) == {seq[k] : k \in DOMAIN seq}

\* the modules the probe imports
RequiredModules == << "mcp", "httpx", "dotenv" >>

Modules == Range(RequiredModules) \cup {"psutil"}

\* "if x > 90"
HighUsage == 90

\* what psutil reports: percentages at and above the threshold, or a
\* failure of one of its calls
Readings ==
    [kind : {"reading"}, cpu_percent : {HighUsage, HighUsage + 1},
     memory_percent : {HighUsage, HighUsage + 1},
     disk_percent : {HighUsage, HighUsage + 1}]

PsutilFails == [kind |-> "raises"]

CheckResult(check, status, error) ==
    [check |-> check, status |-> status, error |-> error]

NoResults == [c \in {} |-> CheckResult("", "", "")]

\* results with the result of one more check
WithResult(results, r) ==
    [c \in DOMAIN results \cup {r.check} |->
        IF c = r.check THEN r ELSE results[c]]

\* HealthChecker() in a process whose environment sets the variables of
\* environ and has the modules of installed
HealthCheckerInit(environ, installed, psutil) ==
    [pc |-> "start", environ |-> environ, installed |-> installed,
     psutil |-> psutil, checks_passed |-> 0, checks_failed |-> 0,
     warnings |-> << >>, results |-> NoResults, overall_status |-> "",
     printed |-> FALSE, exit_code |-> None]

Count(seq, set) == Cardinality({k \in DOMAIN seq : seq[k] \in set})

check_environment(h) ==
    LET missing == Range(RequiredVars) \ h.environ
        status == IF missing = {} THEN "healthy" ELSE "unhealthy"
    IN  [h EXCEPT
            !.checks_failed = @ + Count(RequiredVars, missing),
            !.checks_passed = @ + Count(RequiredVars, h.environ),
            !.warnings = @ \o SelectSeq(OptionalVars,
                                        LAMBDA v : v \notin h.environ),
            !.results = WithResult(@, CheckResult("environment", status, ""))]

\* check_changedetection_api once its request has completed as o
check_changedetection_api(h, o) ==
    LET Unhealthy(error) ==
            [h EXCEPT !.checks_failed = @ + 1,
                      !.results = WithResult(@,
                          CheckResult("changedetection_api", "unhealthy",
                                      error))]
    IN  CASE o.kind = "timeout" -> Unhealthy("timeout")
          [] o.kind = "connect_error" -> Unhealthy("connection_refused")
          [] o.kind = "transport_error" -> Unhealthy("unknown_error")
          [] o.status = 200 /\ o.text = "json" ->
                 [h EXCEPT !.checks_passed = @ + 1,
                           !.results = WithResult(@,
                               CheckResult("changedetection_api", "healthy",
                                           ""))]
          [] o.status = 200 ->
                 \* response.json() raises after checks_passed was counted
                 [h EXCEPT !.checks_passed = @ + 1,
                           !.checks_failed = @ + 1,
                           !.results = WithResult(@,
                               CheckResult("changedetection_api", "unhealthy",
                                           "unknown_error"))]
          [] o.status = 401 -> Unhealthy("authentication_failed")
          [] OTHER -> Unhealthy("http_error_" \o ToString(o.status))

check_dependencies(h) ==
    LET missing == Range(RequiredModules) \ h.installed
        status == IF missing = {} THEN "healthy" ELSE "unhealthy"
    IN  [h EXCEPT
            !.checks_failed = @ + Count(RequiredModules, missing),
            !.checks_passed = @ + Count(RequiredModules, h.installed),
            !.results = WithResult(@, CheckResult("dependencies", status, ""))]

HighUsageWarnings(reading) ==
    (IF reading.cpu_percent > HighUsage THEN << "High CPU usage" >> ELSE << >>)
    \o (IF reading.memory_percent > HighUsage
        THEN << "High memory usage" >> ELSE << >>)
    \o (IF reading.disk_percent > HighUsage
        THEN << "High disk usage" >> ELSE << >>)

\* check_system_resources.  "import psutil" is its first statement, before
\* the try: without the module the coroutine raises ImportError.
check_system_resources(h) ==
    IF "psutil" \notin h.installed
    THEN Raise(Exc("ModuleNotFoundError", "No module named 'psutil'", NoDetail))
    ELSE IF h.psutil.kind = "raises"
    THEN Return([h EXCEPT !.results = WithResult(@,
                     CheckResult("system_resources", "error", "psutil"))])
    ELSE LET warnings == HighUsageWarnings(h.psutil)
         IN  IF warnings = << >>
             THEN Return([h EXCEPT
                     !.checks_passed = @ + 1,
                     !.results = WithResult(@,
                         CheckResult("system_resources", "healthy", ""))])
             ELSE Return([h EXCEPT
                     !.warnings = @ \o warnings,
                     !.results = WithResult(@,
                         CheckResult("system_resources", "degraded", ""))])

\* "Determine overall status"
OverallStatus(statuses) ==
    IF "unhealthy" \in statuses THEN "unhealthy"
    ELSE IF "degraded" \in statuses THEN "degraded"
    ELSE "healthy"

\* a run of the probe in any environment
InitHealth ==
    /\ RATE_LIMIT_ENABLED = TRUE
    /\ RATE_LIMIT_PER_MINUTE = 60
    /\ RATE_LIMIT_BURST = MaxBurst
    /\ ENABLE_METRICS = TRUE
    /\ DEBUG_MODE = FALSE
    /\ LOG_LEVEL = "INFO"
    /\ env = [requests |-> {}, upstream |-> HttpOutcomes, horizon |-> 0]
    /\ now = 0
    /\ rate_limiter = RateLimiterInit(RATE_LIMIT_PER_MINUTE, RATE_LIMIT_BURST, 0)
    /\ metrics = MetricsInit(0)
    /\ calls = << >>
    /\ sanitize_call = NoSanitizeCall
    /\ \E environ \in SUBSET (Range(RequiredVars) \cup Range(OptionalVars)),
          installed \in SUBSET Modules :
           \/ \E reading \in Readings :
                  health = HealthCheckerInit(environ, installed, reading)
           \/ health = HealthCheckerInit(environ, installed, PsutilFails)

Server == << config, env, now, rate_limiter, metrics, calls, sanitize_call >>

\* python healthcheck.py: the imports at the top of the module
HealthImport ==
    /\ health.pc = "start"
    /\ health' =
           IF "httpx" \in health.installed
           THEN [health EXCEPT !.pc = "check_environment"]
           ELSE [health EXCEPT !.pc = "exited", !.exit_code = IntVal(1)]
    /\ UNCHANGED Server

\* The four coroutines of asyncio.gather run in the order given, each up
\* to its first suspension; only check_changedetection_api has one.
CheckEnvironment ==
    /\ health.pc = "check_environment"
    /\ health' = [check_environment(health) EXCEPT
                     !.pc = "check_changedetection_api"]
    /\ UNCHANGED Server

CheckApiRequest ==
    /\ health.pc = "check_changedetection_api"
    /\ health' = [health EXCEPT !.pc = "check_dependencies"]
    /\ UNCHANGED Server

CheckDependencies ==
    /\ health.pc = "check_dependencies"
    /\ health' = [check_dependencies(health) EXCEPT
                     !.pc = "check_system_resources"]
    /\ UNCHANGED Server

\* An exception of one coroutine is raised by gather in run_all_checks at
\* once, and from there by main.
CheckSystemResources ==
    /\ health.pc = "check_system_resources"
    /\ LET r == check_system_resources(health)
       IN  health' = IF r.kind = "raise"
                     THEN [health EXCEPT !.pc = "raised"]
                     ELSE [r.result EXCEPT !.pc = "awaiting"]
    /\ UNCHANGED Server

CheckApiResponse(o) ==
    /\ health.pc = "awaiting"
    /\ health' = [check_changedetection_api(health, o) EXCEPT !.pc = "gathered"]
    /\ UNCHANGED Server

\* run_all_checks after gather
RunAllChecks ==
    /\ health.pc = "gathered"
    /\ health' =
           [health EXCEPT
               !.pc = "main",
               !.overall_status =
                   OverallStatus({health.results[c].status :
                                     c \in DOMAIN health.results})]
    /\ UNCHANGED Server

\* main after run_all_checks returned
HealthMain ==
    /\ health.pc = "main"
    /\ health' =
           [health EXCEPT
               !.pc = "exited",
               !.printed = TRUE,
               !.exit_code = IF health.overall_status = "unhealthy"
                             THEN IntVal(1) ELSE IntVal(0)]
    /\ UNCHANGED Server

\* asyncio.run(main()) when main raised: traceback, exit status 1
HealthUncaught ==
    /\ health.pc = "raised"
    /\ health' = [health EXCEPT !.pc = "exited", !.exit_code = IntVal(1)]
    /\ UNCHANGED Server

NextHealth ==
    \/ HealthImport
    \/ CheckEnvironment
    \/ CheckApiRequest
    \/ CheckDependencies
    \/ CheckSystemResources
    \/ \E o \in env.upstream : CheckApiResponse(o)
    \/ RunAllChecks
    \/ HealthMain
    \/ HealthUncaught

SpecHealth == InitHealth /\ [][NextHealth]_vars

\* ------------------------------------------------------------------------
\* Vocabulary of the properties
\* ------------------------------------------------------------------------
Done(i) == calls[i].pc = "done"

Started(i) == calls[i].pc # "idle"

\* allow_request ran for invocation i and found less than one token
Refused(i) == calls[i].gate.outcome \in {"denied", "raised"}

\* invocation i went on to routing
Admitted(i) == calls[i].gate.outcome \in {"allowed", "skipped"}

CompletedLines(i) ==
    SelectSeq(calls[i].log, LAMBDA l : l.event = "Tool call completed")

\* a/b > 0 for a retry_after
Positive(retry_after) ==
    /\ retry_after.type = "float"
    /\ retry_after.num * retry_after.den > 0

IsRateLimitEnvelope(r) ==
    /\ DOMAIN r = {"error", "message", "retry_after"}
    /\ r.error = "rate_limit_exceeded"

IsFailureEnvelope(r, kind) ==
    /\ DOMAIN r = {"success", "error", "message"}
    /\ r.success = FALSE
    /\ r.error = kind

\* the step that takes invocation i from its arrival to its return at once
ReturnsAtOnce(i) == calls[i].pc = "idle" /\ calls'[i].pc = "done"

\* ------------------------------------------------------------------------
\* C1: with metrics enabled, every invocation that has returned recorded
\* exactly one metrics sample and logged exactly one "Tool call completed"
\* line, and a refused invocation's one sample is the zero-duration
\* rate-limited one.
\* ------------------------------------------------------------------------
C1_OneSamplePerInvocation ==
    \A i \in CallIds :
        Done(i) /\ ENABLE_METRICS =>
            /\ Len(calls[i].samples) = 1
            /\ Len(CompletedLines(i)) = 1
            /\ calls[i].gate.outcome = "denied" =>
                   calls[i].samples[1] = Sample(calls[i].name, FALSE, 0, TRUE)

\* ------------------------------------------------------------------------
\* C2: an invocation rejected by the rate limiter changes no metric other
\* than requests_total and requests_rate_limited.
\* ------------------------------------------------------------------------
C2_RejectionFrame ==
    [][\A i \in CallIds :
           ReturnsAtOnce(i) /\ calls'[i].gate.outcome = "denied" =>
               /\ metrics'.requests_success = metrics.requests_success
               /\ metrics'.requests_failed = metrics.requests_failed
               /\ metrics'.total_duration_ms = metrics.total_duration_ms
               /\ metrics'.by_tool = metrics.by_tool]_vars

\* ------------------------------------------------------------------------
\* C3: every invocation the rate limiter refused returned a
\* rate_limit_exceeded envelope with retry_after > 0, and
\* requests_rate_limited counts exactly the refused invocations.
\* ------------------------------------------------------------------------
C3_RejectionsCounted ==
    /\ \A i \in CallIds :
           Done(i) /\ Refused(i) =>
               /\ IsRateLimitEnvelope(calls[i].response)
               /\ Positive(calls[i].response.retry_after)
    /\ metrics.requests_rate_limited =
           Cardinality({i \in CallIds : Done(i) /\ Refused(i)})

\* ------------------------------------------------------------------------
\* C4: get_metrics after N successful and M failed list_watches invocations
\* ------------------------------------------------------------------------
\* every invocation so far is an admitted list_watches
OnlyListWatches ==
    \A j \in CallIds :
        Started(j) => calls[j].name = "list_watches" /\ Admitted(j)

Succeeded == {j \in CallIds : Done(j) /\ calls[j].success}

Failed == {j \in CallIds : Done(j) /\ ~calls[j].success}

RECURSIVE SumDurations(_)
SumDurations(samples) ==
    IF samples = << >> THEN 0
    ELSE Head(samples).duration_ms + SumDurations(Tail(samples))

RECURSIVE RecordedDuration(_)
RecordedDuration(ids) ==
    IF ids = {} THEN 0
    ELSE LET j == CHOOSE x \in ids : TRUE
         IN  SumDurations(calls[j].samples) + RecordedDuration(ids \ {j})

\* the by_tool entry that get_metrics invocation i is about to report
ReportsListWatches(i) ==
    LET n == Cardinality(Succeeded)
        m == Cardinality(Failed)
        r == calls'[i].response.data.server_metrics
    IN  ToolMetrics(r.by_tool, "list_watches") =
            [count |-> n + m, errors |-> m,
             duration_ms |-> RecordedDuration(Succeeded \cup Failed)]

AfterListWatches(i) ==
    /\ ReturnsAtOnce(i)
    /\ calls'[i].name = "get_metrics"
    /\ OnlyListWatches

\* C4 as claimed: the entry is {N+M, M, sum of durations} and success_rate
\* is exactly N/(N+M)*100, or 0 when N+M = 0.
C4_ExactSuccessRate ==
    [][\A i \in CallIds :
           AfterListWatches(i) =>
               LET n == Cardinality(Succeeded)
                   m == Cardinality(Failed)
                   r == calls'[i].response.data.server_metrics
               IN  /\ ReportsListWatches(i)
                   /\ r.requests.success_rate_x100 * (n + m) =
                          n * Percent * Hundredths]_vars

\* C4 as amended: the entry is {N+M, M, sum of durations} and success_rate
\* is N/(N+M)*100 rounded to two decimals (within half a hundredth of it),
\* or 0 when N+M = 0.
C4_RoundedSuccessRate ==
    [][\A i \in CallIds :
           AfterListWatches(i) =>
               LET n == Cardinality(Succeeded)
                   m == Cardinality(Failed)
                   r == calls'[i].response.data.server_metrics
                   d == r.requests.success_rate_x100 * (n + m)
                            - n * Percent * Hundredths
               IN  /\ ReportsListWatches(i)
                   /\ n + m = 0 => r.requests.success_rate_x100 = 0
                   /\ 2 * d <= n + m
                   /\ 2 * d >= 0 - (n + m)]_vars

\* get_metrics has reported one success and two failures of list_watches,
\* the only invocations before it, as 33.33 percent
C4_Witness ==
    \E i \in CallIds :
        /\ Done(i)
        /\ calls[i].name = "get_metrics"
        /\ LET r == calls[i].response.data.server_metrics
           IN  /\ r.requests.total = 3
               /\ r.requests.success = 1
               /\ r.requests.failed = 2
               /\ ToolMetrics(r.by_tool, "list_watches").count = 3
               /\ ToolMetrics(r.by_tool, "list_watches").errors = 2
               /\ ToolMetrics(r.by_tool, "list_watches").duration_ms > 0
               /\ r.requests.success_rate_x100 = 3333

\* ------------------------------------------------------------------------
\* The rate limiter as the invocations see it
\* ------------------------------------------------------------------------
\* invocation i called allow_request
Gated(i) == Started(i) /\ calls[i].gate.outcome # "skipped"

\* the invocations up to i that called allow_request, in order of arrival
GatedUpTo(i) == {j \in CallIds : j <= i /\ Gated(j)}

\* invocation i arrives in this step and calls allow_request
Arrives(i) ==
    /\ calls[i].pc = "idle"
    /\ calls'[i].pc # "idle"
    /\ calls'[i].gate.outcome # "skipped"

\* j made the latest allow_request call so far
LatestGated(j) == Gated(j) /\ \A k \in CallIds : Gated(k) => k <= j

\* ------------------------------------------------------------------------
\* C5: on a fresh limiter and with no time elapsed, the first B
\* allow_request calls return (True, None) and call B+1 returns
\* (False, retry_after) with retry_after > 0.
\* ------------------------------------------------------------------------
C5_BurstThenDenied ==
    now = 0 =>
        \A i \in CallIds :
            Gated(i) =>
                LET k == Cardinality(GatedUpTo(i))
                IN  /\ k <= RATE_LIMIT_BURST =>
                           /\ calls[i].gate.outcome = "allowed"
                           /\ calls[i].gate.retry_after = None
                    /\ k = RATE_LIMIT_BURST + 1 =>
                           /\ calls[i].gate.outcome = "denied"
                           /\ Positive(calls[i].gate.retry_after)

\* ------------------------------------------------------------------------
\* C6: between calls the bucket holds at least 0 tokens and at most its
\* burst capacity.
\* ------------------------------------------------------------------------
C6_TokensWithinCapacity ==
    /\ rate_limiter.tokens >= 0
    /\ rate_limiter.tokens <= rate_limiter.burst * SecondsPerMinute

\* an empty bucket of capacity 1 was refilled at two tokens per second for
\* a second or more and then used again
C6_Witness ==
    /\ rate_limiter.burst = 1
    /\ rate_limiter.rate = 120
    /\ SumValues(rate_limiter.request_counts) = 2
    /\ rate_limiter.last_update >= 1
    /\ rate_limiter.tokens = 0

\* ------------------------------------------------------------------------
\* C7: a call denied with retry_after is followed, when the next call comes
\* retry_after seconds or more later, by an admission.
\* ------------------------------------------------------------------------
RetryInTime(i, j) ==
    /\ Arrives(i)
    /\ LatestGated(j)
    /\ calls[j].gate.outcome = "denied"
    /\ (now - rate_limiter.last_update) * calls[j].gate.retry_after.den
           >= calls[j].gate.retry_after.num

\* C7 as claimed, for every burst capacity
C7_RetryAdmitted ==
    [][\A i, j \in CallIds :
           RetryInTime(i, j) => calls'[i].gate.outcome = "allowed"]_vars

\* C7 as amended: the same, for a burst capacity of at least 1
C7_RetryAdmittedWithBurst ==
    [][\A i, j \in CallIds :
           RetryInTime(i, j) /\ rate_limiter.burst >= 1 =>
               calls'[i].gate.outcome = "allowed"]_vars

\* a call was denied with a fraction of a token in the bucket, and the next
\* call, retry_after later or more, was admitted
C7_Witness ==
    \E i, j \in CallIds :
        /\ j < i
        /\ Gated(i)
        /\ GatedUpTo(i) \ GatedUpTo(j) = {i}
        /\ calls[j].gate.outcome = "denied"
        /\ calls[j].gate.retry_after.num < SecondsPerMinute
        /\ calls[i].gate.outcome = "allowed"

\* ------------------------------------------------------------------------
\* C8: overlapping invocations never share a token: the tokens the admitted
\* invocations took and the tokens left are no more than the burst plus
\* what was refilled, so with no time elapsed at most burst are admitted.
\* ------------------------------------------------------------------------
AdmittedByLimiter == {i \in CallIds : calls[i].gate.outcome = "allowed"}

C8_NoTokenSharedByTwo ==
    Cardinality(AdmittedByLimiter) * SecondsPerMinute + rate_limiter.tokens
        <= rate_limiter.burst * SecondsPerMinute + now * rate_limiter.rate

\* two invocations are in flight at once, having taken the two tokens, and a
\* third that arrived meanwhile was denied
C8_Witness ==
    /\ now = 0
    /\ rate_limiter.burst = 2
    /\ \E i, j, k \in CallIds :
           /\ i # j
           /\ calls[i].pc = "awaiting"
           /\ calls[j].pc = "awaiting"
           /\ calls[i].gate.outcome = "allowed"
           /\ calls[j].gate.outcome = "allowed"
           /\ calls[k].gate.outcome = "denied"

\* ------------------------------------------------------------------------
\* C9: no metrics update is lost when invocations overlap: the counters and
\* the per-tool aggregates are those of the record_request calls made so
\* far, applied one after another.
\* ------------------------------------------------------------------------
\* the record_request calls made so far, as (invocation, position)
AllSamples ==
    {p \in CallIds \X (1..2) : p[2] <= Len(calls[p[1]].samples)}

SampleAt(p) == calls[p[1]].samples[p[2]]

Counted == {p \in AllSamples : ~SampleAt(p).rate_limited}

RECURSIVE TotalDuration(_)
TotalDuration(ps) ==
    IF ps = {} THEN 0
    ELSE LET p == CHOOSE x \in ps : TRUE
         IN  SampleAt(p).duration_ms + TotalDuration(ps \ {p})

RECURSIVE SamplesInOrder(_)
SamplesInOrder(i) ==
    IF i \notin CallIds THEN << >>
    ELSE calls[i].samples \o SamplesInOrder(i + 1)

C9_NoLostUpdate ==
    /\ metrics = RecordAll(MetricsInit(0), SamplesInOrder(1))
    /\ metrics.requests_total = Cardinality(AllSamples)
    /\ metrics.requests_rate_limited = Cardinality(AllSamples \ Counted)
    /\ metrics.requests_success =
           Cardinality({p \in Counted : SampleAt(p).success})
    /\ metrics.requests_failed =
           Cardinality({p \in Counted : ~SampleAt(p).success})
    /\ metrics.total_duration_ms = TotalDuration(Counted)
    /\ DOMAIN metrics.by_tool = {SampleAt(p).tool_name : p \in Counted}
    /\ \A n \in DOMAIN metrics.by_tool :
           LET ps == {p \in Counted : SampleAt(p).tool_name = n}
           IN  metrics.by_tool[n] =
                   [count |-> Cardinality(ps),
                    errors |-> Cardinality({p \in ps : ~SampleAt(p).success}),
                    duration_ms |-> TotalDuration(ps)]

\* two invocations of one tool that were both in flight from time 0 until
\* now have completed and recorded their samples
C9_Witness ==
    /\ now > 0
    /\ \E i, j \in CallIds :
           /\ i # j
           /\ Done(i)
           /\ Done(j)
           /\ calls[i].http_requests = 1
           /\ calls[j].http_requests = 1
           /\ calls[i].name = calls[j].name
           /\ calls[i].success # calls[j].success
           /\ calls[i].samples = << Sample(calls[i].name, calls[i].success,
                                           now * MsPerSecond, FALSE) >>
           /\ calls[j].samples = << Sample(calls[j].name, calls[j].success,
                                           now * MsPerSecond, FALSE) >>

\* ------------------------------------------------------------------------
\* C10: an admitted invocation of a tool with a required argument that is
\* missing or empty returns a validation_error envelope and makes no
\* outbound request.
\* ------------------------------------------------------------------------
RequiredArgument(name) ==
    IF name \in WatchIdTools THEN {"watch_id"}
    ELSE IF name = "create_watch" THEN {"url"}
    ELSE {}

MissingOrEmpty(arguments, key) ==
    key \notin DOMAIN arguments \/ arguments[key] = StrVal(<< >>)

C10_RequiredArgument ==
    \A i \in CallIds :
        \A key \in RequiredArgument(calls[i].name) :
            Done(i) /\ Admitted(i) /\ MissingOrEmpty(calls[i].arguments, key)
                => /\ IsFailureEnvelope(calls[i].response, "validation_error")
                   /\ calls[i].http_requests = 0

\* the limiter admitted a create_watch with an empty url, which has returned
C10_Witness ==
    \E i \in CallIds :
        /\ Done(i)
        /\ calls[i].gate.outcome = "allowed"
        /\ calls[i].name = "create_watch"
        /\ calls[i].arguments = Arg("url", StrVal(<< >>))
        /\ calls[i].http_requests = 0

\* ------------------------------------------------------------------------
\* C11: an invocation that has returned a validation_error envelope or a
\* rate_limit_exceeded envelope made no outbound HTTP request.
\* ------------------------------------------------------------------------
EndsAsValidationError(i) ==
    Done(i) /\ IsFailureEnvelope(calls[i].response, "validation_error")

EndsAsRejection(i) == Done(i) /\ IsRateLimitEnvelope(calls[i].response)

C11_NoRequestBeforeValidation ==
    \A i \in CallIds :
        EndsAsValidationError(i) \/ EndsAsRejection(i)
            => calls[i].http_requests = 0

\* ------------------------------------------------------------------------
\* C12: when one invocation of an identifier-bearing tool got a 401 from
\* the upstream and another got a 500, both return a failure envelope and
\* the two messages differ, whatever DEBUG_MODE is.
\* ------------------------------------------------------------------------
\* _request logged "HTTP error <status>" for invocation i
UpstreamStatus(i, status) ==
    \E k \in DOMAIN calls[i].log :
        /\ calls[i].log[k].event = "HTTP error"
        /\ calls[i].log[k].detail.text = status

IsFailure(r) ==
    /\ DOMAIN r = {"success", "error", "message"}
    /\ r.success = FALSE

C12_AuthenticationFailureDistinct ==
    \A i, j \in CallIds :
        /\ Done(i)
        /\ Done(j)
        /\ calls[i].name \in WatchIdTools
        /\ calls[j].name \in WatchIdTools
        /\ UpstreamStatus(i, "401")
        /\ UpstreamStatus(j, "500")
        => /\ IsFailure(calls[i].response)
           /\ IsFailure(calls[j].response)
           /\ calls[i].response.message # calls[j].response.message

\* ------------------------------------------------------------------------
\* C13: an invocation that failed, and not as a validation error or a
\* rejection, returns the execution_error envelope; its message is the
\* fixed generic one when DEBUG_MODE is off, whatever the exception was,
\* and the logged text of the exception when DEBUG_MODE is on.  A
\* validation_error envelope carries the logged text of its exception in
\* both modes.
\* ------------------------------------------------------------------------
ExecutionFailure(i) ==
    /\ Done(i)
    /\ ~calls[i].success
    /\ ~EndsAsValidationError(i)
    /\ ~EndsAsRejection(i)

\* str(e) as call_tool logged it for invocation i
LoggedException(i, event) ==
    {calls[i].log[k].detail :
        k \in {n \in DOMAIN calls[i].log : calls[i].log[n].event = event}}

C13_GenericUnlessDebug ==
    \A i \in CallIds :
        /\ ExecutionFailure(i) /\ ~DEBUG_MODE =>
               calls[i].response =
                   [success |-> FALSE, error |-> "execution_error",
                    message |-> GenericMessage]
        /\ ExecutionFailure(i) /\ DEBUG_MODE =>
               /\ IsFailureEnvelope(calls[i].response, "execution_error")
               /\ LoggedException(i, "Error executing")
                      = {calls[i].response.message}
        /\ EndsAsValidationError(i) =>
               LoggedException(i, "Validation error in")
                   = {calls[i].response.message}

\* ------------------------------------------------------------------------
\* C14: the step in which an invocation with a name outside the catalog
\* arrives and is admitted ends it with the validation_error envelope
\* "Unknown tool: <name>" and without an outbound request, and, metrics
\* being enabled, adds one failed request to the totals and to the entry
\* of that name.
\* ------------------------------------------------------------------------
ArrivesAdmitted(i) ==
    /\ calls[i].pc = "idle"
    /\ calls'[i].pc # "idle"
    /\ calls'[i].gate.outcome \in {"allowed", "skipped"}

UnknownToolEnvelope(name) ==
    [success |-> FALSE, error |-> "validation_error",
     message |-> [text |-> "Unknown tool: ", detail |-> << name >>]]

CountedAsFailed(name) ==
    /\ metrics'.requests_total = metrics.requests_total + 1
    /\ metrics'.requests_failed = metrics.requests_failed + 1
    /\ metrics'.requests_success = metrics.requests_success
    /\ metrics'.requests_rate_limited = metrics.requests_rate_limited
    /\ ToolMetrics(metrics'.by_tool, name).count
           = ToolMetrics(metrics.by_tool, name).count + 1
    /\ ToolMetrics(metrics'.by_tool, name).errors
           = ToolMetrics(metrics.by_tool, name).errors + 1

ArrivesAt(i) == calls[i].pc = "idle" /\ calls'[i].pc # "idle"

OneAllowRequest(i) ==
    LET tokens == Refill(rate_limiter, now)
        admitted == calls'[i].gate.outcome = "allowed"
        taken == IF admitted THEN 1 ELSE 0
    IN  /\ calls'[i].gate.outcome \in {"allowed", "denied", "raised"}
        /\ admitted <=> tokens >= SecondsPerMinute
        /\ rate_limiter'.last_update = now
        /\ rate_limiter'.tokens = tokens - taken * SecondsPerMinute
        /\ SumValues(rate_limiter'.request_counts)
               = SumValues(rate_limiter.request_counts) + taken

NotRouted(i) ==
    /\ calls'[i].pc = "done"
    /\ calls'[i].http_requests = 0
    /\ ~calls'[i].success
    /\ ~IsFailureEnvelope(calls'[i].response, "validation_error")

IsSuccessEnvelope(r) ==
    /\ DOMAIN r = {"success", "data"}
    /\ r.success = TRUE

IsEnvelope(r) ==
    \/ IsSuccessEnvelope(r)
    \/ IsFailureEnvelope(r, "validation_error")
    \/ IsFailureEnvelope(r, "execution_error")
    \/ IsRateLimitEnvelope(r)

C16_RespondsWithEnvelope ==
    \A i \in CallIds : Done(i) => IsEnvelope(calls[i].response)

\* ------------------------------------------------------------------------
\* C17: the step in which an invocation arrives issues one outbound
\* request if the invocation is admitted, names one of the seven upstream
\* tools and its argument passes validation, and none otherwise; the
\* completion of its request, failed or not, ends the invocation without
\* another request; and an invocation that has ended does nothing more.
\* ------------------------------------------------------------------------
UpstreamTools == ToolNames \ {"get_metrics"}

PassesValidation(name, arguments) ==
    CASE name \in WatchIdTools ->
             /\ Truthy(Get(arguments, "watch_id"))
             /\ validate_uuid(sanitize_string(Get(arguments, "watch_id"),
                                              DefaultMaxLength))
      [] name = "create_watch" ->
             /\ Truthy(Get(arguments, "url"))
             /\ validate_url(sanitize_string(Get(arguments, "url"),
                                             DefaultMaxLength))
      [] OTHER -> TRUE

ExpectedRequests(c) ==
    IF /\ c.gate.outcome \in {"allowed", "skipped"}
       /\ c.name \in UpstreamTools
       /\ PassesValidation(c.name, c.arguments)
    THEN 1
    ELSE 0

C17_OneRequestNoRetry ==
    [][\A i \in CallIds :
           /\ ArrivesAt(i) =>
                  calls'[i].http_requests = ExpectedRequests(calls'[i])
           /\ calls[i].pc = "awaiting" /\ calls'[i] # calls[i] =>
                  /\ calls'[i].pc = "done"
                  /\ calls'[i].http_requests = calls[i].http_requests
           /\ calls[i].pc = "done" => calls'[i] = calls[i]]_vars

\* an admitted get_watch with a valid identifier has failed after its one
\* request
C17_Witness ==
    \E i \in CallIds :
        /\ Done(i)
        /\ calls[i].name = "get_watch"
        /\ calls[i].arguments = Arg("watch_id", StrVal(PaddedUuid))
        /\ ~calls[i].success
        /\ calls[i].http_requests = 1

\* ------------------------------------------------------------------------
\* C18: the step in which the outbound call of one invocation fails, while
\* others are in flight, ends that invocation with the execution_error
\* envelope and changes nothing of any other invocation nor of the token
\* bucket, so that each of the others is still awaiting its own response.
\* ------------------------------------------------------------------------
InFlight(i) == calls[i].pc = "awaiting"

OutboundCallFails(i) ==
    /\ InFlight(i)
    /\ calls'[i].pc = "done"
    /\ ~calls'[i].success

OthersUntouched(i) ==
    /\ \A j \in CallIds \ {i} : calls'[j] = calls[j]
    /\ rate_limiter' = rate_limiter
    /\ now' = now

C18_FailureIsolated ==
    [][\A i \in CallIds :
           OutboundCallFails(i) /\ (\E j \in CallIds \ {i} : InFlight(j)) =>
               /\ IsFailureEnvelope(calls'[i].response, "execution_error")
               /\ OthersUntouched(i)]_vars

\* ------------------------------------------------------------------------
\* C19: from one step to the next no total of the metrics decreases, every
\* by_tool entry stays, and none of its count, errors and duration_ms
\* decreases.
\* ------------------------------------------------------------------------
NotLess(a, b) ==
    /\ a.requests_total <= b.requests_total
    /\ a.requests_success <= b.requests_success
    /\ a.requests_failed <= b.requests_failed
    /\ a.requests_rate_limited <= b.requests_rate_limited
    /\ a.total_duration_ms <= b.total_duration_ms
    /\ \A n \in DOMAIN a.by_tool :
           /\ n \in DOMAIN b.by_tool
           /\ a.by_tool[n].count <= b.by_tool[n].count
           /\ a.by_tool[n].errors <= b.by_tool[n].errors
           /\ a.by_tool[n].duration_ms <= b.by_tool[n].duration_ms

C19_MetricsNeverDecrease == [][NotLess(metrics, metrics')]_vars

\* successes, failures and rejections were recorded for two tools, some
\* with a duration and some without
C19_Witness ==
    /\ metrics.requests_success > 1
    /\ metrics.requests_failed > 0
    /\ metrics.requests_rate_limited > 0
    /\ metrics.total_duration_ms > 0
    /\ DOMAIN metrics.by_tool = {"list_watches", "get_metrics"}
    /\ \E i \in CallIds :
           /\ Done(i)
           /\ calls[i].name = "list_watches"
           /\ calls[i].samples = << Sample("list_watches", TRUE, 0, FALSE) >>

\* ------------------------------------------------------------------------
\* C20: what sanitize_string returns is at most max_length characters
\* long, contains no NUL and neither begins nor ends with whitespace, and
\* for a value that is not a string it is what sanitize_string returns for
\* the value's text.
\* ------------------------------------------------------------------------
IsSanitized(s, max_length) ==
    /\ Len(s) <= max_length
    /\ \A k \in 1..Len(s) : s[k] # NUL
    /\ s # << >> => s[1] \notin Whitespace /\ s[Len(s)] \notin Whitespace

C20_SanitizedWithinLength ==
    sanitize_call.pc = "returned" =>
        /\ IsSanitized(sanitize_call.result, sanitize_call.max_length)
        /\ sanitize_call.result
               = sanitize_string(StrVal(PyStr(sanitize_call.value)),
                                 sanitize_call.max_length)

\* ------------------------------------------------------------------------
\* The health probe's report and exit code
\* ------------------------------------------------------------------------
HealthChecks ==
    {"environment", "changedetection_api", "dependencies", "system_resources"}

\* one of the checks that reported has this status
Reports(status) ==
    \E c \in DOMAIN health.results : health.results[c].status = status

HealthExited == health.pc = "exited"

\* C21: when the health probe has exited, it has printed the report of its
\* four checks; the overall status is 'unhealthy' iff a check reports
\* 'unhealthy', otherwise 'degraded' iff a check reports 'degraded',
\* otherwise 'healthy'; and the exit code is 1 exactly when the overall
\* status is 'unhealthy' and 0 when it is 'healthy' or 'degraded'.
C21_OverallStatusAndExitCode ==
    HealthExited =>
        /\ health.printed
        /\ DOMAIN health.results = HealthChecks
        /\ health.overall_status = "unhealthy" <=> Reports("unhealthy")
        /\ health.overall_status = "degraded"
               <=> ~Reports("unhealthy") /\ Reports("degraded")
        /\ health.overall_status = "healthy"
               <=> ~Reports("unhealthy") /\ ~Reports("degraded")
        /\ health.exit_code = IntVal(1) <=> health.overall_status = "unhealthy"
        /\ health.exit_code = IntVal(0)
               <=> health.overall_status \in {"healthy", "degraded"}

\* ------------------------------------------------------------------------
\* C22: with rate limiting enabled, the step in which an invocation arrives
\* that names an unknown tool or lacks a valid argument answers it with
\* rate_limit_exceeded, not validation_error, when the refilled bucket
\* holds less than one token; and otherwise takes one token from the
\* bucket and answers it with validation_error without an outbound
\* request.
\* ------------------------------------------------------------------------
FailsValidation(name, arguments) ==
    \/ name \notin ToolNames
    \/ ~PassesValidation(name, arguments)

C22_RateCheckBeforeValidation ==
    [][RATE_LIMIT_ENABLED =>
           \A i \in CallIds :
               /\ ArrivesAt(i)
               /\ FailsValidation(calls'[i].name, calls'[i].arguments)
               => LET tokens == Refill(rate_limiter, now)
                  IN  /\ calls'[i].pc = "done"
                      /\ calls'[i].http_requests = 0
                      /\ IF tokens < SecondsPerMinute
                         THEN /\ IsRateLimitEnvelope(calls'[i].response)
                              /\ rate_limiter'.tokens = tokens
                         ELSE /\ IsFailureEnvelope(calls'[i].response,
                                                   "validation_error")
                              /\ rate_limiter'.tokens
                                     = tokens - SecondsPerMinute]_vars

\* ------------------------------------------------------------------------
\* C23: in every reachable state the request total is the sum of the
\* successful, failed and rate-limited requests; the per-tool counts add
\* up to the successful and failed requests and the per-tool errors to
\* the failed ones; and no tool has more errors than requests.
\* ------------------------------------------------------------------------
RECURSIVE SumOver(_, _)
SumOver(tools, field) ==
    IF tools = {} THEN 0
    ELSE LET n == CHOOSE n \in tools : TRUE
         IN  field[n] + SumOver(tools \ {n}, field)

ToolCounts == [n \in DOMAIN metrics.by_tool |-> metrics.by_tool[n].count]

ToolErrors == [n \in DOMAIN metrics.by_tool |-> metrics.by_tool[n].errors]

C23_MetricsConsistent ==
    /\ metrics.requests_total
           = metrics.requests_success + metrics.requests_failed
                 + metrics.requests_rate_limited
    /\ SumOver(DOMAIN ToolCounts, ToolCounts)
           = metrics.requests_success + metrics.requests_failed
    /\ SumOver(DOMAIN ToolErrors, ToolErrors) = metrics.requests_failed
    /\ \A n \in DOMAIN metrics.by_tool :
           metrics.by_tool[n].errors <= metrics.by_tool[n].count

\* requests of every kind have been recorded, for two tools
C23_Witness ==
    /\ metrics.requests_success > 0
    /\ metrics.requests_failed > 0
    /\ metrics.requests_rate_limited > 0
    /\ Cardinality(DOMAIN metrics.by_tool) = 2

\* ------------------------------------------------------------------------
\* C24: with metrics collection disabled no step of any invocation, the
\* rejection by the rate check included, changes the metrics.
\* ------------------------------------------------------------------------
C24_DisabledMetricsUnchanged ==
    [][~ENABLE_METRICS => metrics' = metrics]_vars

\* ------------------------------------------------------------------------
\* C25: for every invocation that has returned, the success flag of the
\* sample and of the "Tool call completed" line of its finally clause is
\* true exactly when the caller got the {success: true, data} envelope;
\* and requests_success counts exactly the invocations that returned that
\* envelope, so none that returned validation_error, execution_error or
\* rate_limit_exceeded.
\* ------------------------------------------------------------------------
FinallySamplesOf(i) ==
    SelectSeq(calls[i].samples, LAMBDA s : ~s.rate_limited)

ReturnedSuccess(i) == Done(i) /\ IsSuccessEnvelope(calls[i].response)

ReturnedError(i) ==
    /\ Done(i)
    /\ \/ IsFailureEnvelope(calls[i].response, "validation_error")
       \/ IsFailureEnvelope(calls[i].response, "execution_error")
       \/ IsRateLimitEnvelope(calls[i].response)

C25_RecordedOutcomeAgrees ==
    /\ \A i \in CallIds :
           Done(i) =>
               /\ Len(CompletedLines(i)) = 1
               /\ CompletedLines(i)[1].detail.success <=> ReturnedSuccess(i)
               /\ ENABLE_METRICS => Len(FinallySamplesOf(i)) = 1
               /\ \A k \in DOMAIN FinallySamplesOf(i) :
                      FinallySamplesOf(i)[k].success <=> ReturnedSuccess(i)
               /\ ReturnedError(i) => ~ReturnedSuccess(i)
    /\ ENABLE_METRICS =>
           metrics.requests_success
               = Cardinality({i \in CallIds : ReturnedSuccess(i)})

\* an invocation whose outbound request failed got the execution_error
\* envelope and was recorded as failed
C25_Witness ==
    \E i \in CallIds :
        /\ Done(i)
        /\ calls[i].http_requests = 1
        /\ IsFailureEnvelope(calls[i].response, "execution_error")
        /\ ENABLE_METRICS
        /\ ~FinallySamplesOf(i)[1].success
        /\ metrics.requests_failed = 1
        /\ metrics.requests_success = 0

\* ------------------------------------------------------------------------
\* C26: an allow_request call that does not admit only refills the bucket
\* and sets last_update: it takes no token and leaves request_counts as
\* it was; a call that admits leaves one token less than the refilled
\* bucket held and counts one request; so the total_requests of
\* get_stats, as the limiter has it and as every get_metrics invocation
\* reported it, is the number of admitted calls.
\* ------------------------------------------------------------------------
AdmittedBefore(i) == {j \in AdmittedByLimiter : j < i}

TotalRequestsAreAdmissions ==
    /\ get_stats(rate_limiter, RATE_LIMIT_ENABLED,
                 RATE_LIMIT_PER_MINUTE).total_requests
           = Cardinality(AdmittedByLimiter)
    /\ \A i \in CallIds :
           Done(i) /\ calls[i].name = "get_metrics" =>
               calls[i].response.data.rate_limiter.total_requests
                   = Cardinality(AdmittedBefore(i))

C26_DeniedConsumesNothing ==
    [][/\ \A i \in CallIds :
              Arrives(i) =>
                  LET tokens == Refill(rate_limiter, now)
                  IN  IF calls'[i].gate.outcome = "allowed"
                      THEN rate_limiter' =
                               [rate_limiter EXCEPT
                                   !.tokens = tokens - SecondsPerMinute,
                                   !.last_update = now,
                                   !.request_counts = Increment(@, "default")]
                      ELSE rate_limiter' =
                               [rate_limiter EXCEPT !.tokens = tokens,
                                                    !.last_update = now]
       /\ TotalRequestsAreAdmissions']_vars

\* of two allow_request calls the first was admitted and the second, after
\* a partial refill, was denied, and a get_metrics invocation has then
\* reported the one request
C26_Witness ==
    /\ Cardinality({i \in CallIds : Gated(i)}) = 2
    /\ \E j \in CallIds : calls[j].gate.outcome = "denied"
    /\ Cardinality(AdmittedByLimiter) = 1
    /\ rate_limiter.last_update > 0
    /\ rate_limiter.tokens > 0
    /\ SumValues(rate_limiter.request_counts) = 1
    /\ \E i \in CallIds :
           /\ Done(i)
           /\ calls[i].name = "get_metrics"
           /\ calls[i].response.data.rate_limiter.total_requests = 1

\* ------------------------------------------------------------------------
\* C27: when psutil is not installed, check_system_resources does not
\* raise but reports status 'skipped', run_all_checks completes, and the
\* probe exits with the report printed and the overall status decided by
\* the other three checks.
\* ------------------------------------------------------------------------
\* check_system_resources has run
SystemResourcesChecked ==
    health.pc \in {"awaiting", "raised", "gathered", "main"}
        \/ (HealthExited /\ "httpx" \in health.installed)

OtherChecks == HealthChecks \ {"system_resources"}

C27_SkippedWithoutPsutil ==
    "psutil" \notin health.installed /\ SystemResourcesChecked =>
        /\ health.pc # "raised"
        /\ "system_resources" \in DOMAIN health.results
        /\ health.results["system_resources"].status = "skipped"
        /\ HealthExited =>
               /\ health.printed
               /\ health.overall_status =
                      OverallStatus({health.results[c].status :
                                        c \in OtherChecks})

====
